---------------------------- MODULE Spec2Model ----------------------------
(***************************************************************************)
(* A model of trie_index/storage.py: a trie kept in one file as a sequence *)
(* of fixed-size node records, addressed by record number.                 *)
(*                                                                         *)
(* The backing file is modelled by its length in bytes and by the records  *)
(* it holds (record i of the sequence is the node with id i - 1).  A       *)
(* record is kept in its on-disk form: the label byte, the terminal flag   *)
(* byte, the packed values and the packed (byte, id) child entries; the    *)
(* two count bytes are the lengths of the two sequences.  Python strings   *)
(* are sequences of code points, and str.encode("utf-8") is Utf8.          *)
(***************************************************************************)
EXTENDS Integers, Sequences, FiniteSets, TLC

\* ------------------------------------------------------------ constants
NODE_SIZE == 1024
MAX_VALUES == 8
\* defined by the source, used nowhere in it
MAX_CHILDREN == 64
\* largest value struct's "<H" packs: a child id outside 0..U16_MAX raises
U16_MAX == 65535
\* largest value one bytearray item holds (the two count bytes)
BYTE_MAX == 255

\* --------------------------------------------------------------- inputs
\* the keys inserted and queried: strings over "a" (one byte) and "e with
\* acute" (two bytes), among them the empty key, a key with a proper prefix
\* and a proper extension, and two keys that part after a common prefix
Chars == {97, 233}
Keys == {<<>>, <<97>>, <<233>>, <<97, 97>>, <<97, 233>>}
Values == {1, 2}

\* bound on the number of insert calls in one behaviour
MaxInserts == 3

VARIABLES
    file,       \* the backing file: [size |-> bytes, chain |-> length of the
                \*          chain of unlisted records, nodes |-> records]
    isOpen,     \* a PersistentTrie object holds the file open
    lastOp,     \* the last call made and what it returned or raised
    inserted,   \* history: key -> the distinct values inserted under it,
                \*          in order of first insertion
    linked,     \* history: the byte paths for which a node was created,
                \*          in order of creation
    nInserts,   \* history: number of insert calls made, counted up to
                \*          MaxInserts
    rootInits,  \* history: number of times __init__ wrote the root record
    procs,      \* SpecRace: each writer's place in insert and its locals
    overlap,    \* history: an insert began while another was under way
    clobbered   \* history: ids whose record a child write overwrote

vars == <<file, isOpen, lastOp, inserted, linked, nInserts, rootInits,
          procs, overlap, clobbered>>
raceVars == <<procs, overlap, clobbered>>

\* ------------------------------------------------------------- helpers
SetMin(S) == CHOOSE x \in S : \A y \in S : x <= y
SetMax(S) == CHOOSE x \in S : \A y \in S : x >= y
Max(a, b) == IF a >= b THEN a ELSE b

RECURSIVE Concat(_)
Concat(ss) == IF ss = <<>> THEN <<>> ELSE Head(ss) \o Concat(Tail(ss))

IsPrefix(p, s) == Len(p) <= Len(s) /\ SubSeq(s, 1, Len(p)) = p

\* ------------------------------------------------ str.encode("utf-8")
\* (code points below 65536 only; the model draws none above)
Utf8Char(cp) ==
    IF cp < 128 THEN <<cp>>
    ELSE IF cp < 2048 THEN <<192 + (cp \div 64), 128 + (cp % 64)>>
    ELSE <<224 + (cp \div 4096), 128 + ((cp \div 64) % 64), 128 + (cp % 64)>>

Utf8(s) == Concat([i \in 1..Len(s) |-> Utf8Char(s[i])])

\* chr(c) of one byte: the code point with that number
Chr(c) == c

\* ------------------------------------------------------------ the file
\* file.size is the length in bytes.  file.nodes holds the records that were
\* written, record id at index id + 1.  A store prepared as one long chain
\* (ChainFile below) does not list the records of the chain one by one:
\* file.chain is the number of records the chain had, and an id below it
\* that is not in file.nodes still holds the chain's record, ChainRec.
EmptyFile == [size |-> 0, chain |-> 0, nodes |-> <<>>]

\* the root record __init__ writes, which is also an all-zero record, as
\* found in a hole of the file
ZeroRec == [char |-> 0, term |-> 0, values |-> <<>>, children |-> <<>>]

\* record id of a chain: labelled 97, not terminal, one child, id + 1
ChainRec(id) ==
    [char |-> 97, term |-> 0, values |-> <<>>, children |-> << <<97, id + 1>> >>]

\* the NODE_SIZE bytes at node_id * NODE_SIZE
DataAt(f, node_id) ==
    IF node_id + 1 \in DOMAIN f.nodes THEN f.nodes[node_id + 1]
    ELSE IF node_id < f.chain THEN ChainRec(node_id)
    ELSE ZeroRec

\* _read_node returns None when the read at node_id * NODE_SIZE is empty
None == [char |-> -1, is_terminal |-> FALSE, values |-> <<>>, children |-> <<>>]

ReadNode(f, node_id) ==
    IF node_id * NODE_SIZE >= f.size
    THEN None
    ELSE LET data == DataAt(f, node_id)
         IN [char |-> data.char,
             is_terminal |-> data.term # 0,
             values |-> data.values,
             children |-> data.children]

\* how _read_node ends: with the return of None or with the return of the
\* decoded node; on whole records no expression of it raises, whatever the
\* two count bytes hold
ReadOutcome(f, node_id) ==
    IF ReadNode(f, node_id) = None THEN "None" ELSE "node"

\* struct.pack_into("<H", ...) of every child id
PackChildrenOk(children) ==
    \A i \in 1..Len(children) : children[i][2] \in 0..U16_MAX

\* mutant of WriteNode: the child id is truncated to 16 bits, not checked
WriteNode_Wrapping(f, node_id, char, is_terminal, values, children) ==
    LET buf == [char |-> char,
                term |-> IF is_terminal THEN 1 ELSE 0,
                values |-> values,
                children |-> [i \in 1..Len(children) |->
                                <<children[i][1],
                                  children[i][2] % (U16_MAX + 1)>>]]
    IN [err |-> "ok",
        file |-> [size |-> Max(f.size, node_id * NODE_SIZE + NODE_SIZE),
                  chain |-> f.chain,
                  nodes |-> IF node_id + 1 \in DOMAIN f.nodes
                            THEN [f.nodes EXCEPT ![node_id + 1] = buf]
                            ELSE f.nodes @@ (node_id + 1 :> buf)]]

\* _write_node: "ok" and the file written, or the exception raised while
\* the buffer is built, before anything is written.  (The value area and the
\* child area of the buffer overlap only for more than MAX_VALUES values,
\* which insert never passes.)
WriteNode(f, node_id, char, is_terminal, values, children) ==
    IF Len(values) > BYTE_MAX \/ Len(children) > BYTE_MAX
    THEN [err |-> "ValueError", file |-> f]
    ELSE IF ~PackChildrenOk(children)
    THEN [err |-> "struct.error", file |-> f]
    ELSE LET buf == [char |-> char,
                     term |-> IF is_terminal THEN 1 ELSE 0,
                     values |-> values,
                     children |-> children]
         IN [err |-> "ok",
             file |-> [size |-> Max(f.size, node_id * NODE_SIZE + NODE_SIZE),
                       chain |-> f.chain,
                       nodes |-> IF node_id + 1 \in DOMAIN f.nodes
                                 THEN [f.nodes EXCEPT ![node_id + 1] = buf]
                                 ELSE f.nodes @@ (node_id + 1 :> buf)]]

\* mutant of GetNextNodeId: one id is skipped
GetNextNodeId_SkipsOne(f) == f.size \div NODE_SIZE + 1

\* mutant of GetNextNodeId: the id of the last record, not the one after it
GetNextNodeId_LastId(f) == (f.size - 1) \div NODE_SIZE

\* _get_next_node_id
GetNextNodeId(f) == f.size \div NODE_SIZE

\* the first entry of a child table keyed by byte b: its id, or NotFound
NotFound == -1
FindChild(children, b) ==
    LET hits == {i \in 1..Len(children) : children[i][1] = b}
    IN IF hits = {} THEN NotFound ELSE children[SetMin(hits)][2]

\* mutant of FindOrCreateChild: the table is not searched, a child is created
\* for every byte
FindOrCreateChild_AlwaysCreates(f, parent_id, target_char) ==
    LET node == ReadNode(f, parent_id)
        new_node_id == GetNextNodeId(f)
        w1 == WriteNode(f, parent_id, node.char, node.is_terminal, node.values,
                        Append(node.children, <<target_char, new_node_id>>))
        w2 == WriteNode(w1.file, new_node_id, target_char, FALSE, <<>>, <<>>)
    IN IF node = None
       THEN [err |-> "TypeError", file |-> f, id |-> NotFound]
       ELSE IF w1.err # "ok"
       THEN [err |-> w1.err, file |-> w1.file, id |-> NotFound]
       ELSE [err |-> w2.err, file |-> w2.file, id |-> new_node_id]

\* mutant of FindOrCreateChild: the parent is written back without its values
FindOrCreateChild_DropsValues(f, parent_id, target_char) ==
    LET node == ReadNode(f, parent_id)
        new_node_id == GetNextNodeId(f)
        w1 == WriteNode(f, parent_id, node.char, node.is_terminal, <<>>,
                        Append(node.children, <<target_char, new_node_id>>))
        w2 == WriteNode(w1.file, new_node_id, target_char, FALSE, <<>>, <<>>)
    IN IF node = None
       THEN [err |-> "TypeError", file |-> f, id |-> NotFound]
       ELSE IF FindChild(node.children, target_char) # NotFound
       THEN [err |-> "ok", file |-> f,
             id |-> FindChild(node.children, target_char)]
       ELSE IF w1.err # "ok"
       THEN [err |-> w1.err, file |-> w1.file, id |-> NotFound]
       ELSE [err |-> w2.err, file |-> w2.file, id |-> new_node_id]

\* mutant of FindOrCreateChild: the new child's record is not written
FindOrCreateChild_NoChildWrite(f, parent_id, target_char) ==
    LET node == ReadNode(f, parent_id)
        new_node_id == GetNextNodeId(f)
        w1 == WriteNode(f, parent_id, node.char, node.is_terminal, node.values,
                        Append(node.children, <<target_char, new_node_id>>))
    IN IF node = None
       THEN [err |-> "TypeError", file |-> f, id |-> NotFound]
       ELSE IF FindChild(node.children, target_char) # NotFound
       THEN [err |-> "ok", file |-> f,
             id |-> FindChild(node.children, target_char)]
       ELSE [err |-> w1.err, file |-> w1.file, id |-> new_node_id]

\* mutant of FindOrCreateChild: the new child is written terminal
FindOrCreateChild_TerminalChild(f, parent_id, target_char) ==
    LET node == ReadNode(f, parent_id)
    IN IF node = None
       THEN [err |-> "TypeError", file |-> f, id |-> NotFound]
       ELSE IF FindChild(node.children, target_char) # NotFound
       THEN [err |-> "ok", file |-> f,
             id |-> FindChild(node.children, target_char)]
       ELSE LET new_node_id == GetNextNodeId(f)
                w1 == WriteNode(f, parent_id, node.char, node.is_terminal,
                                node.values,
                                Append(node.children,
                                       <<target_char, new_node_id>>))
                w2 == WriteNode(w1.file, new_node_id, target_char, TRUE,
                                <<>>, <<>>)
            IN IF w1.err # "ok"
               THEN [err |-> w1.err, file |-> w1.file, id |-> NotFound]
               ELSE [err |-> w2.err, file |-> w2.file, id |-> new_node_id]

\* _find_or_create_child
FindOrCreateChild(f, parent_id, target_char) ==
    LET node == ReadNode(f, parent_id)
    IN IF node = None
       THEN [err |-> "TypeError", file |-> f, id |-> NotFound]
       ELSE IF FindChild(node.children, target_char) # NotFound
       THEN [err |-> "ok", file |-> f,
             id |-> FindChild(node.children, target_char)]
       ELSE LET new_node_id == GetNextNodeId(f)
                w1 == WriteNode(f, parent_id, node.char, node.is_terminal,
                                node.values,
                                Append(node.children,
                                       <<target_char, new_node_id>>))
                w2 == WriteNode(w1.file, new_node_id, target_char, FALSE,
                                <<>>, <<>>)
            IN IF w1.err # "ok"
               THEN [err |-> w1.err, file |-> w1.file, id |-> NotFound]
               ELSE [err |-> w2.err, file |-> w2.file, id |-> new_node_id]

\* the for loop of insert: one _find_or_create_child per byte
RECURSIVE Descend(_, _, _)
Descend(f, node_id, word) ==
    IF word = <<>>
    THEN [err |-> "ok", file |-> f, id |-> node_id]
    ELSE LET r == FindOrCreateChild(f, node_id, Head(word))
         IN IF r.err # "ok" THEN r ELSE Descend(r.file, r.id, Tail(word))

\* mutant of MarkTerminal: a new value replaces the values held
MarkTerminal_Replaces(f, node_id, value) ==
    LET node == ReadNode(f, node_id)
        present == \E i \in 1..Len(node.values) : node.values[i] = value
        values == IF ~present THEN <<value>> ELSE node.values
    IN WriteNode(f, node_id, node.char, TRUE, values, node.children)

\* mutant of MarkTerminal: the new value is put in front
MarkTerminal_Prepend(f, node_id, value) ==
    LET node == ReadNode(f, node_id)
        present == \E i \in 1..Len(node.values) : node.values[i] = value
        values == IF ~present /\ Len(node.values) < MAX_VALUES
                  THEN <<value>> \o node.values
                  ELSE node.values
    IN WriteNode(f, node_id, node.char, TRUE, values, node.children)

\* mutant of MarkTerminal: no capacity test
MarkTerminal_NoCap(f, node_id, value) ==
    LET node == ReadNode(f, node_id)
        present == \E i \in 1..Len(node.values) : node.values[i] = value
        values == IF ~present THEN Append(node.values, value) ELSE node.values
    IN WriteNode(f, node_id, node.char, TRUE, values, node.children)

\* mutant of MarkTerminal: no membership test
MarkTerminal_NoDedup(f, node_id, value) ==
    LET node == ReadNode(f, node_id)
        values == IF Len(node.values) < MAX_VALUES
                  THEN Append(node.values, value)
                  ELSE node.values
    IN WriteNode(f, node_id, node.char, TRUE, values, node.children)

\* the tail of insert: mark the final node terminal, add the value
MarkTerminal(f, node_id, value) ==
    LET node == ReadNode(f, node_id)
        present == \E i \in 1..Len(node.values) : node.values[i] = value
        values == IF ~present /\ Len(node.values) < MAX_VALUES
                  THEN Append(node.values, value)
                  ELSE node.values
    IN IF node = None
       THEN [err |-> "TypeError", file |-> f]
       ELSE WriteNode(f, node_id, node.char, TRUE, values, node.children)

\* PersistentTrie.insert
InsertOp(f, key, value) ==
    LET d == Descend(f, 0, Utf8(key))
    IN IF d.err # "ok"
       THEN [err |-> d.err, file |-> d.file]
       ELSE MarkTerminal(d.file, d.id, value)

\* mutant of Walk: a byte with no edge is skipped (the for loop lacks its
\* else branch)
RECURSIVE Walk_SkipsMissing(_, _, _)
Walk_SkipsMissing(f, node_id, word) ==
    IF word = <<>>
    THEN [err |-> "ok", id |-> node_id]
    ELSE LET next == FindChild(ReadNode(f, node_id).children, Head(word))
         IN Walk_SkipsMissing(f, IF next = NotFound THEN node_id ELSE next,
                              Tail(word))

\* the descent shared by lookup and prefix_search: the node the bytes lead
\* to, NotFound when a byte has no edge
RECURSIVE Walk(_, _, _)
Walk(f, node_id, word) ==
    IF word = <<>>
    THEN [err |-> "ok", id |-> node_id]
    ELSE LET node == ReadNode(f, node_id)
         IN IF node = None
            THEN [err |-> "TypeError", id |-> NotFound]
            ELSE IF FindChild(node.children, Head(word)) = NotFound
            THEN [err |-> "ok", id |-> NotFound]
            ELSE Walk(f, FindChild(node.children, Head(word)), Tail(word))

\* PersistentTrie.lookup
LookupOp(f, key) ==
    LET w == Walk(f, 0, Utf8(key))
        node == ReadNode(f, w.id)
    IN IF w.err # "ok" THEN [err |-> w.err, out |-> <<>>]
       ELSE IF w.id = NotFound THEN [err |-> "ok", out |-> <<>>]
       ELSE IF node = None THEN [err |-> "TypeError", out |-> <<>>]
       ELSE [err |-> "ok",
             out |-> IF node.is_terminal THEN node.values ELSE <<>>]

\* dfs of prefix_search: the node's own entry, then every child's subtree in
\* child-table order; path is a list of characters
RECURSIVE Dfs(_, _, _)
RECURSIVE DfsChildren(_, _, _, _)

\* mutant of Dfs: the node's own entry comes after those of its subtree
Dfs_PostOrder(f, current_id, path) ==
    LET node == ReadNode(f, current_id)
        here == IF node.is_terminal THEN << <<path, node.values>> >> ELSE <<>>
        below == DfsChildren(f, node.children, 1, path)
    IN [err |-> below.err, out |-> below.out \o here]

Dfs(f, current_id, path) ==
    LET node == ReadNode(f, current_id)
        here == IF node.is_terminal THEN << <<path, node.values>> >> ELSE <<>>
        below == DfsChildren(f, node.children, 1, path)
    IN IF node = None
       THEN [err |-> "TypeError", out |-> <<>>]
       ELSE [err |-> below.err, out |-> here \o below.out]

DfsChildren(f, children, i, path) ==
    IF i > Len(children)
    THEN [err |-> "ok", out |-> <<>>]
    ELSE LET first == Dfs(f, children[i][2],
                          Append(path, Chr(children[i][1])))
             rest == DfsChildren(f, children, i + 1, path)
         IN IF first.err # "ok"
            THEN first
            ELSE [err |-> rest.err, out |-> first.out \o rest.out]

\* prefix_search
PrefixSearchOp(f, prefix) ==
    LET w == Walk(f, 0, Utf8(prefix))
        d == Dfs(f, w.id, prefix)
    IN IF w.err # "ok" THEN [err |-> w.err, out |-> <<>>]
       ELSE IF w.id = NotFound THEN [err |-> "ok", out |-> <<>>]
       ELSE IF d.err # "ok" THEN [err |-> d.err, out |-> <<>>]
       ELSE d

\* ------------------------------------------------------------- history
\* the distinct values inserted under a key, in order of first insertion
Record(seen, value) ==
    IF \E i \in 1..Len(seen) : seen[i] = value THEN seen ELSE Append(seen, value)

\* the byte paths of the nodes an insert creates, shortest first
RECURSIVE NewPaths(_, _, _)
NewPaths(known, word, n) ==
    IF n > Len(word) THEN <<>>
    ELSE LET p == SubSeq(word, 1, n)
         IN (IF \E i \in 1..Len(known) : known[i] = p THEN <<>> ELSE <<p>>)
            \o NewPaths(known, word, n + 1)

NoOp == [op |-> "none", key |-> <<>>, val |-> 0, err |-> "ok", out |-> <<>>]

\* number of whole records in the file
NodeCount(f) == f.size \div NODE_SIZE

\* the writers of SpecRace, and a writer that is in no call
Procs == {1, 2}
Idle == [pc |-> "idle", key |-> <<>>, val |-> 0, word |-> <<>>, node_id |-> 0,
         node |-> None, new_node_id |-> 0]

\* ------------------------------------------------------------- actions
Init ==
    /\ file = EmptyFile
    /\ isOpen = FALSE
    /\ lastOp = NoOp
    /\ inserted = [k \in Keys |-> <<>>]
    /\ linked = <<>>
    /\ nInserts = 0
    /\ rootInits = 0
    /\ procs = [p \in Procs |-> Idle]
    /\ overlap = FALSE
    /\ clobbered = {}

\* mutant of Open: the root record is written whatever the file holds
Open_AlwaysWritesRoot ==
    /\ ~isOpen
    /\ isOpen' = TRUE
    /\ file' = WriteNode(file, 0, 0, FALSE, <<>>, <<>>).file
    /\ rootInits' = IF file.size = 0 THEN rootInits + 1 ELSE rootInits
    /\ lastOp' = [NoOp EXCEPT !.op = "open"]
    /\ UNCHANGED <<inserted, linked, nInserts, raceVars>>

\* PersistentTrie.__init__: opens (or creates) the file and writes the root
\* record when the file is empty
Open ==
    /\ ~isOpen
    /\ isOpen' = TRUE
    /\ IF file.size = 0
       THEN /\ file' = WriteNode(file, 0, 0, FALSE, <<>>, <<>>).file
            /\ rootInits' = rootInits + 1
       ELSE UNCHANGED <<file, rootInits>>
    /\ lastOp' = [NoOp EXCEPT !.op = "open"]
    /\ UNCHANGED <<inserted, linked, nInserts, raceVars>>

\* PersistentTrie.close
Close ==
    /\ isOpen
    /\ isOpen' = FALSE
    /\ lastOp' = [NoOp EXCEPT !.op = "close"]
    /\ UNCHANGED <<file, inserted, linked, nInserts, rootInits, raceVars>>

Insert(key, value) ==
    /\ isOpen
    /\ LET r == InsertOp(file, key, value)
       IN /\ file' = r.file
          /\ lastOp' = [op |-> "insert", key |-> key, val |-> value,
                        err |-> r.err, out |-> <<>>]
          /\ inserted' = IF r.err = "ok"
                         THEN [inserted EXCEPT ![key] = Record(@, value)]
                         ELSE inserted
          /\ linked' = IF r.err = "ok"
                       THEN linked \o NewPaths(linked, Utf8(key), 1)
                       ELSE linked
    /\ nInserts' = IF nInserts < MaxInserts THEN nInserts + 1 ELSE nInserts
    /\ UNCHANGED <<isOpen, rootInits, raceVars>>

\* mutant of Lookup: the descent is that of insert, which creates the nodes
\* it does not find
Lookup_Creating(key) ==
    /\ isOpen
    /\ file' = Descend(file, 0, Utf8(key)).file
    /\ LET r == LookupOp(file, key)
       IN lastOp' = [op |-> "lookup", key |-> key, val |-> 0,
                     err |-> r.err, out |-> r.out]
    /\ UNCHANGED <<isOpen, inserted, linked, nInserts, rootInits, raceVars>>

Lookup(key) ==
    /\ isOpen
    /\ LET r == LookupOp(file, key)
       IN lastOp' = [op |-> "lookup", key |-> key, val |-> 0,
                     err |-> r.err, out |-> r.out]
    /\ UNCHANGED <<file, isOpen, inserted, linked, nInserts, rootInits,
                 raceVars>>

PrefixSearch(prefix) ==
    /\ isOpen
    /\ LET r == PrefixSearchOp(file, prefix)
       IN lastOp' = [op |-> "prefix_search", key |-> prefix, val |-> 0,
                     err |-> r.err, out |-> r.out]
    /\ UNCHANGED <<file, isOpen, inserted, linked, nInserts, rootInits,
                 raceVars>>

Next ==
    \/ Open
    \/ Close
    \/ \E k \in Keys, v \in Values : nInserts < MaxInserts /\ Insert(k, v)
    \/ \E k \in Keys : Lookup(k)
    \/ \E p \in Keys : PrefixSearch(p)

Spec == Init /\ [][Next]_vars

\* ------------------------------------------ two writers (for C8)
\* insert and _find_or_create_child run by two writers on one file, with no
\* lock, interleaved between the calls of _read_node, _get_next_node_id and
\* _write_node; what a writer computes between two calls is part of the step
\* that makes the earlier call.  pc names the call a writer makes next.
MaxRaceInserts == 2
RaceKeys == {<<97>>, <<233>>, <<97, 97>>}

Finish(p, err) ==
    /\ lastOp' = [op |-> "insert", key |-> procs[p].key, val |-> procs[p].val,
                  err |-> err, out |-> <<>>]
    /\ procs' = [procs EXCEPT ![p] = Idle]

\* insert is called: word = word.encode("utf-8"); node_id = 0
StartInsert(p, key, value) ==
    /\ isOpen
    /\ procs[p].pc = "idle"
    /\ nInserts < MaxRaceInserts
    /\ nInserts' = nInserts + 1
    /\ procs' = [procs EXCEPT ![p] = [Idle EXCEPT !.pc = "read",
                                                   !.key = key,
                                                   !.val = value,
                                                   !.word = Utf8(key)]]
    /\ overlap' = (overlap \/ \E q \in Procs : q # p /\ procs[q].pc # "idle")
    /\ UNCHANGED <<file, isOpen, lastOp, inserted, linked, rootInits,
                   clobbered>>

\* _find_or_create_child reads the parent and searches its table; after the
\* last byte, insert reads the final node and prepares its values
ReadStep(p) ==
    LET me == procs[p]
        node == ReadNode(file, me.node_id)
        next == FindChild(node.children, Head(me.word))
        present == \E i \in 1..Len(node.values) : node.values[i] = me.val
        values == IF ~present /\ Len(node.values) < MAX_VALUES
                  THEN Append(node.values, me.val)
                  ELSE node.values
    IN /\ me.pc = "read"
       /\ IF node = None
          THEN Finish(p, "TypeError")
          ELSE /\ procs' = [procs EXCEPT ![p] =
                    IF me.word = <<>>
                    THEN [me EXCEPT !.pc = "write_final",
                                    !.node = [node EXCEPT !.values = values,
                                                          !.is_terminal = TRUE]]
                    ELSE IF next # NotFound
                    THEN [me EXCEPT !.node_id = next, !.word = Tail(me.word)]
                    ELSE [me EXCEPT !.pc = "allocate", !.node = node]]
               /\ UNCHANGED lastOp
       /\ UNCHANGED <<file, isOpen, inserted, linked, nInserts, rootInits,
                      overlap, clobbered>>

\* new_node_id = self._get_next_node_id(); the entry is appended to the copy
\* of the parent read before
AllocateStep(p) ==
    LET me == procs[p]
        new_node_id == GetNextNodeId(file)
    IN /\ me.pc = "allocate"
       /\ procs' = [procs EXCEPT ![p] =
              [me EXCEPT !.pc = "write_parent",
                         !.new_node_id = new_node_id,
                         !.node.children =
                             Append(@, <<Head(me.word), new_node_id>>)]]
       /\ UNCHANGED <<file, isOpen, lastOp, inserted, linked, nInserts,
                      rootInits, overlap, clobbered>>

\* mutant of WriteParentStep: the child's record is written in the same step,
\* before the parent
WriteParentStep_ChildFirst(p) ==
    LET me == procs[p]
        c == WriteNode(file, me.new_node_id, Head(me.word), FALSE, <<>>, <<>>)
        w == WriteNode(c.file, me.node_id, me.node.char, me.node.is_terminal,
                       me.node.values, me.node.children)
    IN /\ me.pc = "write_parent"
       /\ file' = w.file
       /\ IF w.err # "ok"
          THEN Finish(p, w.err)
          ELSE /\ procs' = [procs EXCEPT ![p].pc = "write_child"]
               /\ UNCHANGED lastOp
       /\ UNCHANGED <<isOpen, inserted, linked, nInserts, rootInits, overlap,
                      clobbered>>

\* the parent is written back from the copy
WriteParentStep(p) ==
    LET me == procs[p]
        w == WriteNode(file, me.node_id, me.node.char, me.node.is_terminal,
                       me.node.values, me.node.children)
    IN /\ me.pc = "write_parent"
       /\ file' = w.file
       /\ IF w.err # "ok"
          THEN Finish(p, w.err)
          ELSE /\ procs' = [procs EXCEPT ![p].pc = "write_child"]
               /\ UNCHANGED lastOp
       /\ UNCHANGED <<isOpen, inserted, linked, nInserts, rootInits, overlap,
                      clobbered>>

\* the new child's empty record is written; the loop goes on from the child
WriteChildStep(p) ==
    LET me == procs[p]
        w == WriteNode(file, me.new_node_id, Head(me.word), FALSE, <<>>, <<>>)
        path == SubSeq(Utf8(me.key), 1, Len(Utf8(me.key)) - Len(me.word) + 1)
    IN /\ me.pc = "write_child"
       /\ file' = w.file
       /\ clobbered' = IF me.new_node_id < NodeCount(file)
                       THEN clobbered \cup {me.new_node_id}
                       ELSE clobbered
       /\ linked' = IF \E i \in 1..Len(linked) : linked[i] = path
                    THEN linked ELSE Append(linked, path)
       /\ IF w.err # "ok"
          THEN Finish(p, w.err)
          ELSE /\ procs' = [procs EXCEPT ![p] =
                              [me EXCEPT !.pc = "read",
                                         !.node_id = me.new_node_id,
                                         !.word = Tail(me.word)]]
               /\ UNCHANGED lastOp
       /\ UNCHANGED <<isOpen, inserted, nInserts, rootInits, overlap>>

\* the final node is written back, terminal, from the copy
WriteFinalStep(p) ==
    LET me == procs[p]
        w == WriteNode(file, me.node_id, me.node.char, me.node.is_terminal,
                       me.node.values, me.node.children)
    IN /\ me.pc = "write_final"
       /\ file' = w.file
       /\ Finish(p, w.err)
       /\ inserted' = IF w.err = "ok"
                      THEN [inserted EXCEPT ![me.key] = Record(@, me.val)]
                      ELSE inserted
       /\ UNCHANGED <<isOpen, linked, nInserts, rootInits, overlap, clobbered>>

NextRace ==
    \/ Open
    \/ \E p \in Procs, k \in RaceKeys : StartInsert(p, k, 1)
    \/ \E p \in Procs : ReadStep(p)
    \/ \E p \in Procs : AllocateStep(p)
    \/ \E p \in Procs : WriteParentStep(p)
    \/ \E p \in Procs : WriteChildStep(p)
    \/ \E p \in Procs : WriteFinalStep(p)

SpecRace == Init /\ [][NextRace]_vars

\* ------------------------------- an insert that stops (for C15)
\* One writer steps through insert as in SpecRace and may stop between any
\* two of its calls: a write raises (OSError of file.write or file.flush) or
\* the process ends; nothing is rolled back.  The calls that follow are made
\* once the insert is over.
Writer == 1

Crash(p) ==
    /\ procs[p].pc # "idle"
    /\ Finish(p, "stopped")
    /\ UNCHANGED <<file, isOpen, inserted, linked, nInserts, rootInits, overlap,
                   clobbered>>

NextCrash ==
    \/ Open
    \/ \E k \in RaceKeys : StartInsert(Writer, k, 1)
    \/ ReadStep(Writer)
    \/ AllocateStep(Writer)
    \/ WriteParentStep(Writer)
    \/ WriteChildStep(Writer)
    \/ WriteFinalStep(Writer)
    \/ Crash(Writer)
    \/ \E k \in RaceKeys : procs[Writer].pc = "idle" /\ Lookup(k)

SpecCrash == Init /\ [][NextCrash]_vars

\* ----------------------------- a reader during an insert (for C16)
\* One writer steps through insert; lookup and prefix_search are called
\* through a second handle on the same file at any point between the
\* writer's calls.
NextReader ==
    \/ Open
    \/ \E k \in RaceKeys : StartInsert(Writer, k, 1)
    \/ ReadStep(Writer)
    \/ AllocateStep(Writer)
    \/ WriteParentStep(Writer)
    \/ WriteChildStep(Writer)
    \/ WriteFinalStep(Writer)
    \/ \E k \in RaceKeys : Lookup(k)
    \/ \E k \in RaceKeys : PrefixSearch(k)

SpecReader == Init /\ [][NextReader]_vars

\* ------------------------------------------- the value cap (for C4)
\* One key is given more distinct values than a node holds; a second key
\* below it keeps a child under the node.  Values are opaque to the code
\* (only compared for equality), so a fresh value is taken from either end
\* of the values not yet used (the orders reached are not monotone), and a
\* repeated value is the first or the latest one inserted.
ExtraValues == 2
CapValues == 1..(MAX_VALUES + ExtraValues)
CapKey == <<97>>
CapKeys == {CapKey, <<97, 97>>}

CapChoices(k) ==
    IF k # CapKey THEN {1}
    ELSE LET seen == inserted[k]
             unused == CapValues \ {seen[i] : i \in 1..Len(seen)}
         IN (IF seen = <<>> THEN {} ELSE {seen[1], seen[Len(seen)]})
            \cup (IF unused = {} THEN {}
                  ELSE {SetMin(unused), SetMax(unused)})

NextCap ==
    \/ Open
    \/ \E k \in CapKeys : \E v \in CapChoices(k) : Insert(k, v)
    \/ \E k \in CapKeys : Lookup(k)

SpecCap == Init /\ [][NextCap]_vars

\* ------------------------------------------ the id ceiling (for C7)
\* The store after insert("a" * (n - 1), 1) on an empty file: n nodes in one
\* chain, node i - 1 linked to node i by the byte 97, the last one terminal.
ChainFile(n) ==
    [size |-> n * NODE_SIZE,
     chain |-> n,
     nodes |-> (1 :> [ZeroRec EXCEPT !.children = << <<97, 1>> >>])
               @@ (n :> [char |-> 97, term |-> 1, values |-> <<1>>,
                         children |-> <<>>])]

\* the chain leaves room for at most MaxRoom more nodes below the ceiling
MaxRoom == 2
OverflowKeys == {<<97>>, <<233>>, <<97, 233>>, <<233, 97>>}

\* inserted and linked record what is inserted from here on
InitOverflow ==
    /\ \E room \in 0..MaxRoom : file = ChainFile(U16_MAX + 1 - room)
    /\ isOpen = TRUE
    /\ lastOp = [NoOp EXCEPT !.op = "open"]
    /\ inserted = [k \in Keys \cup OverflowKeys |-> <<>>]
    /\ linked = <<>>
    /\ nInserts = 0
    /\ rootInits = 1
    /\ procs = [p \in Procs |-> Idle]
    /\ overlap = FALSE
    /\ clobbered = {}

\* (prefix_search is left out: its recursion is as deep as the chain)
NextOverflow ==
    \/ \E k \in OverflowKeys : Insert(k, 1)
    \/ \E k \in OverflowKeys : Lookup(k)

SpecOverflow == InitOverflow /\ [][NextOverflow]_vars

\* ------------------------------------- a full child table (for C12, C17)
\* The store after insert(chr(b), 1) for b = 1..n on an empty file: the root
\* with n children, child b at id b, each terminal with the value 1.
FanFile(n) ==
    [size |-> (n + 1) * NODE_SIZE,
     chain |-> 0,
     nodes |-> [i \in 1..(n + 1) |->
                  IF i = 1
                  THEN [ZeroRec EXCEPT !.children = [b \in 1..n |-> <<b, b>>]]
                  ELSE [char |-> i - 1, term |-> 1, values |-> <<1>>,
                        children |-> <<>>]]]

\* the root has at most MaxFanRoom entries fewer than MAX_CHILDREN
MaxFanRoom == 2
\* a key the store holds, three whose first byte has no edge at the root,
\* and one below the first of those
FanKeys == {<<1>>, <<100>>, <<101>>, <<102>>, <<100, 1>>}

\* inserted and linked record what is inserted from here on
InitFanout ==
    /\ \E room \in 0..MaxFanRoom : file = FanFile(MAX_CHILDREN - room)
    /\ isOpen = TRUE
    /\ lastOp = [NoOp EXCEPT !.op = "open"]
    /\ inserted = [k \in Keys \cup FanKeys |-> <<>>]
    /\ linked = <<>>
    /\ nInserts = 0
    /\ rootInits = 1
    /\ procs = [p \in Procs |-> Idle]
    /\ overlap = FALSE
    /\ clobbered = {}

NextFanout ==
    \/ \E k \in FanKeys : Insert(k, 1)
    \/ \E k \in FanKeys : Lookup(k)

SpecFanout == InitFanout /\ [][NextFanout]_vars

\* ---------------------------------------------------------------- claims
Initialised == file.size > 0

\* the keys looked up in C2: every string of up to three characters over the
\* model's alphabet and one more character, "b"
QueryKeys == UNION {[1..n -> Chars \cup {98}] : n \in 0..3}

\* C1: round trip.  Under a single writer on a store that started empty, for
\* every key under which at most MAX_VALUES distinct values were inserted,
\* lookup returns exactly those values, each once, in order of first
\* insertion, whatever other keys were inserted in between.
C1_RoundTrip ==
    \A k \in Keys :
        (inserted[k] # <<>> /\ Len(inserted[k]) <= MAX_VALUES)
            => LookupOp(file, k) = [err |-> "ok", out |-> inserted[k]]

\* two values were inserted under one key, the larger first, another key was
\* inserted as well, and lookup returned the two in insertion order
C1_Witness ==
    /\ lastOp.op = "lookup"
    /\ inserted[lastOp.key] = <<2, 1>>
    /\ lastOp.out = <<2, 1>>
    /\ \E k \in Keys : k # lastOp.key /\ inserted[k] # <<>>

\* C2: absence.  After any sequence of inserts lookup returns the empty
\* sequence for every key that was never inserted: when a byte has no edge,
\* when the key is a proper prefix of inserted keys, when it extends one.
C2_Absence ==
    Initialised =>
        \A k \in QueryKeys :
            (k \notin Keys \/ inserted[k] = <<>>)
                => LookupOp(file, k) = [err |-> "ok", out |-> <<>>]

\* lookup of a key that was not inserted returned nothing, while a proper
\* extension of it and a proper prefix of it were inserted
C2_Witness ==
    /\ lastOp.op = "lookup"
    /\ lastOp.err = "ok"
    /\ lastOp.out = <<>>
    /\ inserted[lastOp.key] = <<>>
    /\ \E k \in Keys : /\ inserted[k] # <<>>
                       /\ k # lastOp.key
                       /\ IsPrefix(lastOp.key, k)
    /\ \E k \in Keys : /\ inserted[k] # <<>>
                       /\ k # lastOp.key
                       /\ IsPrefix(k, lastOp.key)

\* C3: prefix containment, as claimed.  For every inserted key k and every
\* prefix p of k, prefix_search(p) has an entry whose key is k itself and
\* whose values are those lookup(k) returns.
C3_PrefixContainment ==
    \A k \in Keys : \A p \in Keys :
        (inserted[k] # <<>> /\ IsPrefix(p, k)) =>
            LET r == PrefixSearchOp(file, p)
            IN \E i \in 1..Len(r.out) :
                   r.out[i] = <<k, LookupOp(file, k).out>>

NoDuplicates(seq) ==
    \A i, j \in 1..Len(seq) : seq[i] = seq[j] => i = j

FirstN(seq, n) == SubSeq(seq, 1, IF Len(seq) < n THEN Len(seq) ELSE n)

\* C4: capacity ceiling.  Every record holds at most MAX_VALUES values and no
\* value twice; lookup of a key returns the first MAX_VALUES distinct values
\* inserted under it, in insertion order, also after more were inserted; the
\* inserts whose value is dropped raise nothing and the node stays terminal.
C4_CapacityCeiling ==
    /\ \A n \in DOMAIN file.nodes :
           /\ Len(file.nodes[n].values) <= MAX_VALUES
           /\ NoDuplicates(file.nodes[n].values)
    /\ \A k \in CapKeys :
           inserted[k] # <<>> =>
               /\ LookupOp(file, k)
                      = [err |-> "ok", out |-> FirstN(inserted[k], MAX_VALUES)]
               /\ ReadNode(file, Walk(file, 0, Utf8(k)).id).is_terminal
    /\ lastOp.op = "insert" => lastOp.err = "ok"

\* more than MAX_VALUES distinct values went under the key, the last insert
\* was of a value that was dropped, and the first MAX_VALUES are kept in an
\* order that is not ascending
C4_Witness ==
    /\ lastOp.op = "insert"
    /\ lastOp.key = CapKey
    /\ Len(inserted[CapKey]) > MAX_VALUES
    /\ lastOp.val = inserted[CapKey][Len(inserted[CapKey])]
    /\ LookupOp(file, CapKey).out = SubSeq(inserted[CapKey], 1, MAX_VALUES)
    /\ inserted[CapKey][1] > inserted[CapKey][2]
    /\ inserted[<<97, 97>>] # <<>>

\* C5: idempotence.  In every store state, for every key and value, a second
\* insert of the same pair succeeds, allocates no node, leaves every record
\* as the first insert left it, and so leaves lookup of the key the same.
C5_Idempotence ==
    Initialised =>
        \A k \in Keys, v \in Values :
            LET once == InsertOp(file, k, v)
                twice == InsertOp(once.file, k, v)
            IN /\ once.err = "ok"
               /\ twice.err = "ok"
               /\ twice.file = once.file
               /\ LookupOp(twice.file, k) = LookupOp(once.file, k)

\* exactly two inserts were made, both of the same key and value, and the key
\* looks up to that one value
C5_Witness ==
    /\ lastOp.op = "insert"
    /\ nInserts = 2
    /\ inserted[lastOp.key] = <<lastOp.val>>
    /\ \A k \in Keys : k # lastOp.key => inserted[k] = <<>>
    /\ LookupOp(file, lastOp.key).out = <<lastOp.val>>

\* the bytes an entry of prefix_search(p) was reconstructed from: the
\* characters of p, then one character per byte traversed below p
EntryBytes(p, key) ==
    Utf8(p) \o [i \in 1..(Len(key) - Len(p)) |-> key[Len(p) + i]]

\* position of a byte path in the order the nodes were created
LinkIndex(path) == CHOOSE i \in 1..Len(linked) : linked[i] = path

\* depth-first pre-order on byte paths: a path comes before its extensions,
\* and two paths that part at some byte are ordered as the two edges were
\* linked into the child table of the node where they part
PreOrderBefore(x, y) ==
    \/ (Len(x) < Len(y) /\ IsPrefix(x, y))
    \/ \E d \in 1..Len(x) :
           /\ d <= Len(y)
           /\ SubSeq(x, 1, d - 1) = SubSeq(y, 1, d - 1)
           /\ x[d] # y[d]
           /\ LinkIndex(SubSeq(x, 1, d)) < LinkIndex(SubSeq(y, 1, d))

HasNode(path) == path = <<>> \/ \E i \in 1..Len(linked) : linked[i] = path

\* C6: enumeration order.  prefix_search(p) is empty when a byte of p has no
\* edge; otherwise its entries are the inserted keys whose byte path extends
\* that of p, each once with its values, in depth-first pre-order: a key
\* before the keys below it, sibling subtrees in the order their edges were
\* first linked.
C6_EnumerationOrder ==
    Initialised =>
        \A p \in Keys :
            LET r == PrefixSearchOp(file, p)
                b == [i \in 1..Len(r.out) |-> EntryBytes(p, r.out[i][1])]
            IN /\ r.err = "ok"
               /\ ~HasNode(Utf8(p)) => r.out = <<>>
               /\ \A i, j \in 1..Len(r.out) :
                      i < j => PreOrderBefore(b[i], b[j])
               /\ {b[i] : i \in 1..Len(r.out)}
                      = {Utf8(k) : k \in {x \in Keys : /\ inserted[x] # <<>>
                                                       /\ IsPrefix(p, x)}}
               /\ \A i \in 1..Len(r.out) : \A k \in Keys :
                      Utf8(k) = b[i] => r.out[i][2] = inserted[k]

\* prefix_search("a") after insert of "a" + e-acute, then "aa", then "a": the
\* key "a" first, then the subtree linked first (byte 195), then byte 97
C6_Witness ==
    /\ lastOp.op = "prefix_search"
    /\ lastOp.key = <<97>>
    /\ Len(lastOp.out) = 3
    /\ lastOp.out[1][1] = <<97>>
    /\ lastOp.out[2][1] = <<97, 195, 169>>
    /\ lastOp.out[3][1] = <<97, 97>>

\* how many bytes of word have no node yet below node_id
RECURSIVE Missing(_, _, _)
Missing(f, node_id, word) ==
    IF word = <<>> THEN 0
    ELSE LET next == FindChild(ReadNode(f, node_id).children, Head(word))
         IN IF next = NotFound THEN Len(word)
            ELSE Missing(f, next, Tail(word))

\* every child entry holds the id of an existing node other than the root,
\* within the 16 bits it is stored in, and that node carries the entry's byte
EntriesSound(id) ==
    LET children == DataAt(file, id).children
    IN \A e \in 1..Len(children) :
           /\ children[e][2] \in 1..U16_MAX
           /\ children[e][2] < NodeCount(file)
           /\ DataAt(file, children[e][2]).char = children[e][1]

\* The records listed in file.nodes are checked one by one.  An unlisted
\* record of the chain holds the one entry (97, id + 1), which is sound as
\* long as the chain fits the file and the ceiling and every listed record of
\* the chain still carries the byte 97.
C7_EdgesSound ==
    /\ \A i \in DOMAIN file.nodes : EntriesSound(i - 1)
    /\ file.chain <= U16_MAX + 1
    /\ file.chain <= NodeCount(file)
    /\ \A i \in DOMAIN file.nodes :
           (1 < i /\ i <= file.chain) => file.nodes[i].char = 97
    /\ file.chain > 0 => file.chain \in DOMAIN file.nodes

\* an insert fails, with struct.error, exactly when the nodes it needs do not
\* all fit below the ceiling; and each node it does create is entered in its
\* parent's table under the id the node was allocated
C7_InsertStep ==
    lastOp'.op = "insert" =>
        LET word == Utf8(lastOp'.key)
            need == Missing(file, 0, word)
            fits == NodeCount(file) + need <= U16_MAX + 1
        IN /\ lastOp'.err = (IF fits THEN "ok" ELSE "struct.error")
           /\ NodeCount(file') =
                  (IF fits THEN NodeCount(file) + need ELSE U16_MAX + 1)
           /\ \A j \in 1..need :
                  LET id == NodeCount(file) + j - 1
                      path == SubSeq(word, 1, Len(word) - need + j)
                  IN id < NodeCount(file') => Walk(file', 0, path).id = id

\* C7: node id overflow.  An insert that needs a node when the store holds
\* U16_MAX + 1 nodes fails with an error, and no child entry ever holds a
\* wrapped or truncated id: each holds the id its child was allocated.
C7_NodeIdOverflow ==
    /\ [][C7_InsertStep]_vars
    /\ []C7_EdgesSound
    /\ [](NodeCount(file) <= U16_MAX + 1)

\* an insert failed on a full store: one that began with room for one node
\* and needed two, so that its first node was created and linked
C7_Witness ==
    /\ lastOp.op = "insert"
    /\ lastOp.err = "struct.error"
    /\ NodeCount(file) = U16_MAX + 1
    /\ DataAt(file, U16_MAX).char = 195
    /\ DataAt(file, U16_MAX).children = <<>>

\* the child entries of a file, each as (index of the record, position)
Entries(f) ==
    UNION {{<<n, e>> : e \in 1..Len(f.nodes[n].children)} : n \in DOMAIN f.nodes}

\* two different child entries hold the same id
SharedChild(f) ==
    \E x, y \in Entries(f) :
        /\ x # y
        /\ f.nodes[x[1]].children[x[2]][2] = f.nodes[y[1]].children[y[2]][2]

\* C8: allocation race.  Two inserts interleaved between _get_next_node_id
\* and _write_node can be given the same new id, after which two child
\* entries hold one id and the later child write overwrites the earlier
\* record (C8_Witness is such a state); neither happens unless an insert
\* began while another was under way, so not under a single writer.
C8_OnlyByRace ==
    (SharedChild(file) \/ clobbered # {}) => overlap

\* both inserts are over: two different entries hold one id, and that id's
\* record was written by both
C8_Witness ==
    /\ \A p \in Procs : procs[p].pc = "idle"
    /\ lastOp.err = "ok"
    /\ \E x, y \in Entries(file) :
           /\ x # y
           /\ file.nodes[x[1]].children[x[2]][2]
                  = file.nodes[y[1]].children[y[2]][2]
           /\ file.nodes[x[1]].children[x[2]][2] \in clobbered

\* C9: persistence across open.  __init__ writes the root record (label 0,
\* not terminal, no values, no children) exactly when the file is empty, and
\* writes nothing otherwise; close writes nothing; so every lookup and
\* prefix_search returns after a re-open what it returned before the close,
\* and the root is written once.
C9_OpenStep ==
    (~isOpen /\ isOpen') =>
        IF file.size = 0
        THEN file' = [EmptyFile EXCEPT !.size = NODE_SIZE,
                                       !.nodes = <<ZeroRec>>]
        ELSE /\ file' = file
             /\ \A k \in Keys : /\ LookupOp(file', k) = LookupOp(file, k)
                                /\ PrefixSearchOp(file', k)
                                       = PrefixSearchOp(file, k)

C9_CloseStep == (isOpen /\ ~isOpen') => file' = file

C9_Persistence ==
    /\ [][C9_OpenStep /\ C9_CloseStep]_vars
    /\ [](rootInits <= 1)
    /\ [](Initialised <=> rootInits = 1)

\* a store holding inserted keys was closed and opened again
C9_Witness ==
    /\ lastOp.op = "open"
    /\ isOpen
    /\ rootInits = 1
    /\ \E k \in Keys : inserted[k] # <<>> /\ LookupOp(file, k).out = inserted[k]

\* C10: read-only queries.  A lookup or prefix_search step, whatever its
\* argument, leaves the file length and every record unchanged.
C10_QueryStep ==
    lastOp'.op \in {"lookup", "prefix_search"} => file' = file

C10_ReadOnly == [][C10_QueryStep]_vars

\* a prefix_search whose prefix has no path came back empty on a store
\* that holds keys
C10_Witness ==
    /\ lastOp.op = "prefix_search"
    /\ ~HasNode(Utf8(lastOp.key))
    /\ lastOp.out = <<>>
    /\ \E k \in Keys : inserted[k] # <<>>

\* the byte paths of the model's keys: every prefix of a key's encoding
BytePaths ==
    UNION {{SubSeq(Utf8(k), 1, n) : n \in 0..Len(Utf8(k))} : k \in Keys}

\* C11: terminal invariant.  After completed inserts every node lies on the
\* byte path of a key; a node is terminal exactly when the byte path from the
\* root to it is the encoding of an inserted key; and a record that is not
\* terminal holds no values.
C11_TerminalInvariant ==
    Initialised =>
        /\ \A id \in 0..(NodeCount(file) - 1) :
               \E p \in BytePaths : Walk(file, 0, p).id = id
        /\ \A p \in BytePaths :
               LET id == Walk(file, 0, p).id
               IN id # NotFound =>
                      (ReadNode(file, id).is_terminal
                           <=> \E k \in Keys : /\ inserted[k] # <<>>
                                               /\ Utf8(k) = p)
        /\ \A n \in DOMAIN file.nodes :
               file.nodes[n].term = 0 => file.nodes[n].values = <<>>

\* "a" and "a" + e-acute were inserted and the empty key was not: the root
\* and the node of byte 195 are not terminal, the node of "a" is terminal
\* and has a child
C11_Witness ==
    /\ lastOp.op = "insert"
    /\ inserted[<<97>>] # <<>>
    /\ inserted[<<97, 233>>] # <<>>
    /\ inserted[<<>>] = <<>>
    /\ ~ReadNode(file, Walk(file, 0, <<97, 195>>).id).is_terminal
    /\ ReadNode(file, Walk(file, 0, <<97>>).id).is_terminal
    /\ ReadNode(file, Walk(file, 0, <<97>>).id).children # <<>>

\* C12: child-table cap, as claimed.  Every child table holds at most
\* MAX_CHILDREN entries, and an insert that needs a new edge at a node whose
\* table holds MAX_CHILDREN entries leaves that table as it is.
C12_Capped ==
    \A n \in DOMAIN file.nodes : Len(file.nodes[n].children) <= MAX_CHILDREN

C12_FullStep ==
    lastOp'.op = "insert" =>
        \A n \in DOMAIN file.nodes :
            Len(file.nodes[n].children) = MAX_CHILDREN
                => file'.nodes[n].children = file.nodes[n].children

C12_ChildTableCap == []C12_Capped /\ [][C12_FullStep]_vars

\* C17: record validation on read, as claimed.  _read_node ends in an error,
\* neither in None nor in a decoded node, for an id at or beyond the node
\* count and for a record whose value count exceeds MAX_VALUES or whose child
\* count exceeds MAX_CHILDREN.
C17_RecordValidation ==
    Initialised =>
        \A id \in 0..(NodeCount(file) + 1) :
            (\/ id >= NodeCount(file)
             \/ Len(DataAt(file, id).values) > MAX_VALUES
             \/ Len(DataAt(file, id).children) > MAX_CHILDREN)
                => ReadOutcome(file, id) = "error"

NoDupBytes(children) ==
    \A i, j \in 1..Len(children) : children[i][1] = children[j][1] => i = j

C13_UniqueBytes ==
    \A n \in DOMAIN file.nodes : NoDupBytes(file.nodes[n].children)

\* an insert creates one node per byte of the key that had no node, follows
\* the edges that exist, and changes a child table only by appending one
\* entry whose byte the table did not hold
C13_InsertStep ==
    lastOp'.op = "insert" =>
        LET word == Utf8(lastOp'.key)
        IN /\ NodeCount(file') = NodeCount(file) + Missing(file, 0, word)
           /\ \A n \in 1..Len(word) :
                  LET id == Walk(file, 0, SubSeq(word, 1, n)).id
                  IN id # NotFound => Walk(file', 0, SubSeq(word, 1, n)).id = id
           /\ \A n \in DOMAIN file.nodes :
                  LET old == file.nodes[n].children
                      new == file'.nodes[n].children
                  IN /\ IsPrefix(old, new)
                     /\ Len(new) <= Len(old) + 1
                     /\ Len(new) = Len(old) + 1
                            => FindChild(old, new[Len(new)][1]) = NotFound

\* C13: unique edges.  Under a single writer no child table holds two
\* entries with the same byte; insert follows the edge of a byte when the
\* table has one and appends a new (byte, id) entry only when it has none.
C13_UniqueEdges == []C13_UniqueBytes /\ [][C13_InsertStep]_vars

\* the insert of "a" + e-acute followed the edge of "a", which "aa" had
\* created, and appended a second entry to that node's table
C13_Witness ==
    /\ lastOp.op = "insert"
    /\ lastOp.key = <<97, 233>>
    /\ inserted[<<97, 97>>] # <<>>
    /\ Len(file.nodes[1].children) = 1
    /\ ReadNode(file, Walk(file, 0, <<97>>).id).children
           = << <<97, 2>>, <<195, 3>> >>

\* the file is a whole number of records, one for each id below the node
\* count, and the k-th node created after the root has the id k
C14_Dense ==
    /\ file.size % NODE_SIZE = 0
    /\ DOMAIN file.nodes = 1..NodeCount(file)
    /\ Initialised =>
           /\ Len(linked) = NodeCount(file) - 1
           /\ \A i \in 1..Len(linked) : Walk(file, 0, linked[i]).id = i

\* the node count never decreases, and the nodes a step creates receive the
\* ids from the node count on, in the order of their creation
C14_Step ==
    /\ NodeCount(file') >= NodeCount(file)
    /\ IsPrefix(linked, linked')
    /\ Initialised =>
           \A j \in 1..(Len(linked') - Len(linked)) :
               Walk(file', 0, linked'[Len(linked) + j]).id
                   = NodeCount(file) + j - 1

\* C14: dense identifiers.  Under a single writer, from an empty file, the
\* file length is a multiple of NODE_SIZE after every operation, the store
\* holds exactly the ids 0..N-1 with N = length / NODE_SIZE, every node
\* created receives the id N counted before its creation, no id is given
\* twice or freed, and N never decreases.
C14_DenseIds == []C14_Dense /\ [][C14_Step]_vars

\* the insert of e-acute on a store of two nodes created the nodes 2 and 3
C14_Witness ==
    /\ lastOp.op = "insert"
    /\ lastOp.key = <<233>>
    /\ linked = << <<97>>, <<195>>, <<195, 169>> >>
    /\ NodeCount(file) = 4
    /\ Walk(file, 0, <<195, 169>>).id = 3

\* C15: interrupted insert, as claimed.  Once an insert has ended, completed
\* or stopped between two of its writes, every key inserted before still
\* looks up to its values, every lookup, prefix_search and insert that
\* follows completes without an error, and no node is the child of two
\* entries.
C15_InterruptedInsert ==
    (Initialised /\ \A p \in Procs : procs[p].pc = "idle") =>
        /\ \A k \in RaceKeys :
               inserted[k] # <<>>
                   => LookupOp(file, k) = [err |-> "ok", out |-> inserted[k]]
        /\ \A k \in RaceKeys :
               /\ LookupOp(file, k).err = "ok"
               /\ PrefixSearchOp(file, k).err = "ok"
               /\ InsertOp(file, k, 1).err = "ok"
        /\ ~SharedChild(file)

\* the bytes of a writer's key up to and including the byte it is at
PathSoFar(me) ==
    SubSeq(Utf8(me.key), 1, Len(Utf8(me.key)) - Len(me.word) + 1)

\* C16: reader during insert.  While the writer is between the write of the
\* parent and the write of the new child, the file holds the parent with the
\* new entry and no record at the entry's id: a reader follows the new edge
\* to an id _read_node has nothing for, so a lookup of the writer's key ends
\* in TypeError.  Just before the parent write the file holds neither, and
\* the same lookup returns the empty sequence.
C16_ReaderDuringInsert ==
    \A p \in Procs :
        LET me == procs[p]
        IN /\ me.pc = "write_child" =>
                  /\ FindChild(ReadNode(file, me.node_id).children,
                               Head(me.word)) = me.new_node_id
                  /\ Walk(file, 0, PathSoFar(me)).id = me.new_node_id
                  /\ ReadNode(file, me.new_node_id) = None
                  /\ LookupOp(file, me.key).err = "TypeError"
           /\ me.pc = "write_parent" =>
                  /\ Walk(file, 0, PathSoFar(me)).id = NotFound
                  /\ LookupOp(file, me.key) = [err |-> "ok", out |-> <<>>]

\* a lookup of the key being inserted, made between the two writes, ended
\* in TypeError, and an earlier key is in the store
C16_Witness ==
    /\ lastOp.op = "lookup"
    /\ lastOp.err = "TypeError"
    /\ procs[Writer].pc = "write_child"
    /\ lastOp.key = procs[Writer].key
    /\ \E k \in RaceKeys : inserted[k] # <<>>

\* the id a child entry holds, and the byte it is keyed by
EntryId(f, x) == f.nodes[x[1]].children[x[2]][2]
EntryByte(f, x) == f.nodes[x[1]].children[x[2]][1]

\* C18: tree shape.  Under a single writer, after every completed insert,
\* every child entry refers to an id below the node count, other than the
\* root's and larger than its parent's, whose record carries the entry's
\* byte; and every node other than the root is referred to by exactly one
\* entry.  So the nodes form a tree rooted at 0: no orphan, no dangling edge,
\* no cycle.
C18_TreeShape ==
    Initialised =>
        /\ \A x \in Entries(file) :
               /\ EntryId(file, x) \in 1..(NodeCount(file) - 1)
               /\ EntryId(file, x) > x[1] - 1
               /\ DataAt(file, EntryId(file, x)).char = EntryByte(file, x)
        /\ \A id \in 1..(NodeCount(file) - 1) :
               Cardinality({x \in Entries(file) : EntryId(file, x) = id}) = 1

\* three inserts built a tree of seven nodes in which the root and the node
\* of "a" have two children each
C18_Witness ==
    /\ lastOp.op = "insert"
    /\ NodeCount(file) = 7
    /\ Len(file.nodes[1].children) = 2
    /\ Len(ReadNode(file, Walk(file, 0, <<97>>).id).children) = 2

\* the ids of the nodes on the path of word in f, the root included
OnPath(f, word) == {Walk(f, 0, SubSeq(word, 1, n)).id : n \in 0..Len(word)}

\* an insert of k leaves lookup of every other key as it was; of the records
\* that existed it changes the flag and values of the final node of k only
\* and child tables of nodes on k's path only; the records it adds are on
\* the path, and other than the final node they are not terminal and hold
\* no values
C19_InsertStep ==
    lastOp'.op = "insert" =>
        LET k == lastOp'.key
            word == Utf8(k)
            final == Walk(file', 0, word).id
        IN /\ \A k2 \in QueryKeys \ {k} :
                  LookupOp(file', k2) = LookupOp(file, k2)
           /\ \A n \in DOMAIN file.nodes :
                  LET old == file.nodes[n]
                      new == file'.nodes[n]
                  IN /\ new.char = old.char
                     /\ n - 1 # final => /\ new.term = old.term
                                         /\ new.values = old.values
                     /\ new.children # old.children
                            => n - 1 \in OnPath(file', word) \ {final}
           /\ \A n \in DOMAIN file'.nodes \ DOMAIN file.nodes :
                  /\ n - 1 \in OnPath(file', word)
                  /\ n - 1 # final => /\ file'.nodes[n].term = 0
                                      /\ file'.nodes[n].values = <<>>

\* C19: insert isolation.  In every store state reached by inserts, for every
\* key k, value v and key k2 other than k, lookup(k2) returns the same before
\* and after insert(k, v), also when k is a prefix or an extension of k2; an
\* insert changes only the terminal flag and values of the node at the end of
\* k's path and the child tables along that path.
C19_InsertIsolation == [][C19_InsertStep]_vars

\* "a" was inserted into a store that holds its prefix, the empty key, under
\* another value and its extension "aa"; both still look up to their values
C19_Witness ==
    /\ lastOp.op = "insert"
    /\ lastOp.key = <<97>>
    /\ inserted[<<97>>] = <<lastOp.val>>
    /\ inserted[<<>>] # <<>>
    /\ inserted[<<>>] # inserted[<<97>>]
    /\ inserted[<<97, 97>>] # <<>>
    /\ Walk(file, 0, <<97>>).id = 1
    /\ LookupOp(file, <<>>).out = inserted[<<>>]
    /\ LookupOp(file, <<97, 97>>).out = inserted[<<97, 97>>]

\* a step removes nothing: it leaves the file as it is, or what lookup
\* returned for a key is a prefix of what it returns after the step, and
\* every record is still there, terminal if it was, with its values and its
\* child entries where they were
C20_Step ==
    \/ file' = file
    \/ /\ \A k \in QueryKeys :
              IsPrefix(LookupOp(file, k).out, LookupOp(file', k).out)
       /\ \A n \in DOMAIN file.nodes :
              /\ n \in DOMAIN file'.nodes
              /\ file.nodes[n].term = 1 => file'.nodes[n].term = 1
              /\ IsPrefix(file.nodes[n].values, file'.nodes[n].values)
              /\ IsPrefix(file.nodes[n].children, file'.nodes[n].children)

\* C20: monotonic growth.  No operation removes anything: under a single
\* writer, if lookup(k) returns s at some point, every later lookup(k)
\* returns a sequence that has s as a prefix, and a node that is terminal
\* stays terminal and keeps its child entries in the same order.
C20_MonotonicGrowth == [][C20_Step]_vars

\* a key that held one value was given a second one, its node has the child
\* that "aa" created, and lookup returned the two values, the earlier first
C20_Witness ==
    /\ lastOp.op = "lookup"
    /\ lastOp.key = <<97>>
    /\ lastOp.out = <<1, 2>>
    /\ inserted[<<97, 97>>] # <<>>
    /\ ReadNode(file, Walk(file, 0, <<97>>).id).children = << <<97, 2>> >>
=============================================================================
